---- MODULE Spec2Model ----
(***************************************************************************)
(* LucidFrame backend: the in-memory job registry (backend/jobs.py), the   *)
(* video submission endpoint with its admission check (backend/main.py),   *)
(* the orchestrator start_video_job (backend/video_tasks.py) and the       *)
(* cleanup daemon thread (backend/main.py).                                *)
(*                                                                         *)
(* Scheduling.  uvicorn runs the application object on one event loop      *)
(* (scripts/backend_entry.py passes the object, so one process serves).    *)
(* video_upscale is an "async def" whose body never awaits: from the       *)
(* admission check to the return of start_video_job it runs on the event   *)
(* loop without yielding, so no other request handler runs in between.     *)
(* The cleanup daemon is a real thread and interleaves with a handler      *)
(* between any two of its steps.  The wall clock advances at any moment.   *)
(*                                                                         *)
(* Filesystem.  A staging directory is present or absent as a whole and    *)
(* carries its mtime; mkdir, the copy of the upload, shutil.rmtree and the *)
(* listing of the temp root may each fail.  One rmtree is one step.        *)
(*                                                                         *)
(* Time is counted in units of one TTL-scale tick; the registry's limits   *)
(* are scaled down (max_jobs 200 -> MaxJobs, job_ttl_minutes 45 -> TTL).   *)
(***************************************************************************)
EXTENDS Integers, FiniteSets, Sequences, TLC

\* ----- bounds of the model
NumCtx == 2     \* request contexts that may be open at once
MaxIds == 3     \* jobs created during one run
MaxTime == 2    \* last clock value
MaxLen == 3     \* frames of the uploaded video
MaxPix == 2     \* largest pixel value of a source frame

\* ----- program constants (scaled)
MaxJobs == 2             \* config.max_jobs
MaxConcurrentJobs == 1   \* config.max_concurrent_jobs
TTL == 1                 \* config.job_ttl_minutes, JobStore.default_ttl

Ctx == 1..NumCtx
Ids == 1..MaxIds
NoJob == 0
NoPath == <<>>

VARIABLES
    now,            \* the wall clock (datetime.utcnow / time.time)
    jobs,           \* JobStore._jobs: job id -> Job
    nextId,         \* the next fresh uuid4
    dirs,           \* config.temp_dir: job id -> mtime of an existing <temp>/<id>
    pc,             \* per request context: position in video_upscale / start_video_job
    job,            \* per request context: id of the Job object start_video_job holds
    exc,            \* per request context: text of the exception being handled
    outcome,        \* per request context: how the last request ended
    busyAtArrival,  \* per request context: a job was running when the request was made
    createPruned,   \* ids removed by the prune inside the latest create (return value discarded)
    dpc,            \* cleanup daemon: position in _cleanup_loop
    dExpired,       \* cleanup daemon: the list "expired" of the current cycle
    dErr,           \* the step just taken: the cycle ended in "Cleanup loop error"
    rmFailed        \* the step just taken: ids whose shutil.rmtree raised and left the
                    \* tree in place (swallowed by cleanup_job_dir, logged as
                    \* "Failed to cleanup job dir" unless it is FileNotFoundError)

\* one client polling GET /jobs/{job_id} and GET /jobs/{job_id}/result
VARIABLES
    qpc,            \* position of the polling request
    qid,            \* the job id it asks for
    qout            \* the answer it got

\* one call process_video(input_path, output_path, scale, interpolate), seen
\* frame by frame (backend/pipelines/video.py)
VARIABLES
    stage,          \* position in process_video
    args,           \* its arguments scale and interpolate, and whether config.ffmpeg_path is there
    video,          \* the uploaded video: what ffmpeg extracts, frame by frame
    frames,         \* <job_dir>/frames: whether it is there, and frame number -> image
    frames_up,      \* <job_dir>/frames_up
    frames_interp,  \* <job_dir>/frames_interp
    output,         \* <job_dir>/output.mp4: what assemble_video encoded, or NoFile
    log,            \* the stages started so far, in order
    raised          \* the message of the exception process_video raised, "" if none

coreVars == <<now, jobs, nextId, dirs, pc, job, exc, outcome, busyAtArrival,
              createPruned, dpc, dExpired, dErr, rmFailed>>
apiVars == <<qpc, qid, qout>>
pipeVars == <<stage, args, video, frames, frames_up, frames_interp, output, log, raised>>

vars == <<coreVars, apiVars, pipeVars>>

\* ----- the registry (backend/jobs.py)

\* Job(...) as constructed by JobStore.create
NewJob(t) ==
    [status |-> "queued", message |-> "queued",
     created_at |-> t, updated_at |-> t,
     result_path |-> NoPath, keep_until |-> t + TTL]

\* JobStore.running_count
running_count == Cardinality({i \in DOMAIN jobs : jobs[i].status = "running"})

\* variant: the comparison written as keep_until <= now
ExpiredInclusive(js, t) == {i \in DOMAIN js : js[i].keep_until <= t}

\* the list "expired" computed by JobStore.prune_expired at clock value t
Expired(js, t) == {i \in DOMAIN js : js[i].keep_until < t}

\* variant: create without its prune
NotPruned(js, t) == js

\* the map left by JobStore.prune_expired
Pruned(js, t) == [i \in (DOMAIN js) \ Expired(js, t) |-> js[i]]

\* variants: the capacity test dropped, and written with > for >=
AtCapacityNever(js) == FALSE
AtCapacityOffByOne(js) == Cardinality(DOMAIN js) > MaxJobs

\* the len(self._jobs) >= self.max_jobs test of JobStore.create
AtCapacity(js) == Cardinality(DOMAIN js) >= MaxJobs

\* variant: keep_until extended by every update
KeepAlwaysRefreshed(old, status, t) == t + TTL

\* the keep_until written by JobStore.update
KeepAfterUpdate(old, status, t) ==
    IF status \in {"completed", "failed"} THEN t + TTL ELSE old

\* variant: result_path dropped by update
PathNeverStored(old, result_path) == old

\* the result_path written by JobStore.update
PathAfterUpdate(old, result_path) ==
    IF result_path # NoPath THEN result_path ELSE old

\* the Job left by JobStore.update at clock value t
Updated(j, status, message, result_path, t) ==
    [j EXCEPT !.status = status,
              !.message = message,
              !.updated_at = t,
              !.result_path = PathAfterUpdate(j.result_path, result_path),
              !.keep_until = KeepAfterUpdate(j.keep_until, status, t)]

\* <temp>/<id>/output.mp4
OutputPath(id) == <<id, "output.mp4">>

\* ----- the event loop

\* variant: the endpoint as a plain def, run on the thread pool
EventLoopShared(c) == TRUE

\* video_upscale is async and never awaits: a handler starts only when no
\* other handler is between its first and last statement
EventLoopFree(c) == \A d \in Ctx \ {c} : pc[d] \in {"idle", "pending"}

\* a directory that is not there, an output file that is not there
NoDir == [there |-> FALSE, files |-> <<>>]
NoFile == [there |-> FALSE, src |-> "", fps |-> 0, frames |-> <<>>]

\* no polling request is open
ApiInit == qpc = "idle" /\ qid = NoJob /\ qout = "none"

\* no process_video call is being looked at
PipeOff ==
    /\ stage = "off"
    /\ args = [scale |-> 2, interpolate |-> FALSE, ffmpeg |-> TRUE]
    /\ video = <<>>
    /\ frames = NoDir /\ frames_up = NoDir /\ frames_interp = NoDir
    /\ output = NoFile
    /\ log = <<>>
    /\ raised = ""

CoreInit ==
    /\ now = 0
    /\ jobs = <<>>
    /\ nextId = 1
    /\ dirs = <<>>
    /\ pc = [c \in Ctx |-> "idle"]
    /\ job = [c \in Ctx |-> NoJob]
    /\ exc = [c \in Ctx |-> ""]
    /\ outcome = [c \in Ctx |-> "none"]
    /\ busyAtArrival = [c \in Ctx |-> FALSE]
    /\ createPruned = {}
    /\ dpc = "sleep"
    /\ dExpired = {}
    /\ dErr = FALSE
    /\ rmFailed = {}

Init == CoreInit /\ ApiInit /\ PipeOff

\* a step in which no rmtree raises and no cleanup loop error is logged
NothingLogged == dErr' = FALSE /\ rmFailed' = {}

\* the wall clock advances
Tick ==
    /\ now < MaxTime
    /\ now' = now + 1
    /\ UNCHANGED <<jobs, nextId, dirs, pc, job, exc, outcome, busyAtArrival,
                   createPruned, dpc, dExpired>>
    /\ NothingLogged
    /\ UNCHANGED <<apiVars, pipeVars>>

\* ----- POST /video/upscale (backend/main.py) and start_video_job (backend/video_tasks.py)

Put(f, k, v) == [i \in (DOMAIN f) \cup {k} |-> IF i = k THEN v ELSE f[i]]
Drop(f, ks) == [i \in (DOMAIN f) \ ks |-> f[i]]

\* a client posts a video; the request waits for the event loop
\* (open requests take the contexts in order)
Arrive(c) ==
    /\ pc[c] = "idle"
    /\ \A d \in Ctx : d < c => pc[d] # "idle"
    /\ pc' = [pc EXCEPT ![c] = "pending"]
    /\ busyAtArrival' = [busyAtArrival EXCEPT ![c] = (running_count >= MaxConcurrentJobs)]
    /\ UNCHANGED <<now, jobs, nextId, dirs, job, exc, outcome, createPruned, dpc, dExpired>>
    /\ NothingLogged
    /\ UNCHANGED <<apiVars, pipeVars>>

\* video_upscale starts: the admission check
video_upscale(c) ==
    /\ pc[c] = "pending"
    /\ EventLoopFree(c)
    /\ IF running_count >= MaxConcurrentJobs
       THEN /\ pc' = [pc EXCEPT ![c] = "done"]
            /\ outcome' = [outcome EXCEPT ![c] = "denied"]
       ELSE /\ pc' = [pc EXCEPT ![c] = "create"]
            /\ UNCHANGED outcome
    /\ busyAtArrival' = [busyAtArrival EXCEPT ![c] = FALSE]
    /\ UNCHANGED <<now, jobs, nextId, dirs, job, exc, createPruned, dpc, dExpired>>
    /\ NothingLogged
    /\ UNCHANGED <<apiVars, pipeVars>>

\* variant: video_upscale without "except RuntimeError", the error escapes
CreateRefusedUncaught == "exception"

\* what the caller gets when jobs.create raises RuntimeError("Job limit
\* reached"): video_upscale turns it into HTTP 429
CreateRefused == "capacity"

\* variant: an id is taken again once its record is gone
RecycledId(js, n) == CHOOSE i \in Ids : i \notin DOMAIN js /\ \A k \in Ids : k < i => k \in DOMAIN js

\* str(uuid.uuid4()): an id that was never issued before (n counts the ids issued)
FreshId(js, n) == n

\* jobs.create("video"): prune, capacity test, allocation
create(c) ==
    /\ pc[c] = "create"
    /\ createPruned' = Expired(jobs, now)
    /\ IF AtCapacity(Pruned(jobs, now))
       THEN /\ jobs' = Pruned(jobs, now)
            /\ pc' = [pc EXCEPT ![c] = "done"]
            /\ outcome' = [outcome EXCEPT ![c] = CreateRefused]
            /\ UNCHANGED <<nextId, job>>
       ELSE /\ nextId <= MaxIds
            /\ jobs' = Put(Pruned(jobs, now), FreshId(Pruned(jobs, now), nextId), NewJob(now))
            /\ job' = [job EXCEPT ![c] = FreshId(Pruned(jobs, now), nextId)]
            /\ nextId' = nextId + 1
            /\ pc' = [pc EXCEPT ![c] = "mkdir"]
            /\ UNCHANGED outcome
    /\ UNCHANGED <<now, dirs, exc, busyAtArrival, dpc, dExpired>>
    /\ NothingLogged
    /\ UNCHANGED <<apiVars, pipeVars>>

\* _ensure_temp(job.id); it runs before the try, so an OSError leaves start_video_job
ensure_temp(c) ==
    /\ pc[c] = "mkdir"
    /\ \/ /\ dirs' = Put(dirs, job[c], now)
          /\ pc' = [pc EXCEPT ![c] = "copy"]
          /\ UNCHANGED outcome
       \/ /\ pc' = [pc EXCEPT ![c] = "done"]
          /\ outcome' = [outcome EXCEPT ![c] = "exception"]
          /\ UNCHANGED dirs
    /\ createPruned' = {}
    /\ UNCHANGED <<now, jobs, nextId, job, exc, busyAtArrival, dpc, dExpired>>
    /\ NothingLogged
    /\ UNCHANGED <<apiVars, pipeVars>>

\* the upload is written to <temp>/<id>/input.<ext>
copy_upload(c) ==
    /\ pc[c] = "copy"
    /\ \/ /\ job[c] \in DOMAIN dirs
          /\ dirs' = Put(dirs, job[c], now)
          /\ pc' = [pc EXCEPT ![c] = "setrunning"]
          /\ UNCHANGED exc
       \/ /\ pc' = [pc EXCEPT ![c] = "fail"]
          /\ exc' = [exc EXCEPT ![c] = "error"]
          /\ UNCHANGED dirs
    /\ UNCHANGED <<now, jobs, nextId, job, outcome, busyAtArrival, createPruned, dpc, dExpired>>
    /\ NothingLogged
    /\ UNCHANGED <<apiVars, pipeVars>>

\* variant: update that inserts a record for an id it does not find
update_upsert(c, status, message, result_path, onSuccess, onKeyError) ==
    /\ jobs' = Put(jobs, job[c],
                   Updated(IF job[c] \in DOMAIN jobs THEN jobs[job[c]] ELSE NewJob(now),
                           status, message, result_path, now))
    /\ pc' = [pc EXCEPT ![c] = onSuccess]
    /\ UNCHANGED exc

\* jobs.update(id, status, message, result_path) called by context c; a KeyError
\* (the record is gone) sends control to onKeyError
update(c, status, message, result_path, onSuccess, onKeyError) ==
    IF job[c] \in DOMAIN jobs
    THEN /\ jobs' = [jobs EXCEPT ![job[c]] =
                       Updated(@, status, message, result_path, now)]
         /\ pc' = [pc EXCEPT ![c] = onSuccess]
         /\ UNCHANGED exc
    ELSE /\ pc' = [pc EXCEPT ![c] = onKeyError]
         /\ exc' = [exc EXCEPT ![c] = "error"]
         /\ UNCHANGED jobs

\* variant: the pipeline is handed to a background task and the job is
\* returned as soon as it is marked running
set_running_detached(c) ==
    /\ pc[c] = "setrunning"
    /\ update(c, "running", "processing", NoPath, "done", "fail")
    /\ outcome' = [outcome EXCEPT ![c] = IF job[c] \in DOMAIN jobs THEN "accepted" ELSE @]
    /\ UNCHANGED <<now, nextId, dirs, job, busyAtArrival, createPruned, dpc, dExpired>>
    /\ NothingLogged
    /\ UNCHANGED <<apiVars, pipeVars>>

\* jobs.update(job.id, status="running", message="processing")
set_running(c) ==
    /\ pc[c] = "setrunning"
    /\ update(c, "running", "processing", NoPath, "process", "fail")
    /\ UNCHANGED <<now, nextId, dirs, job, outcome, busyAtArrival, createPruned, dpc, dExpired>>
    /\ NothingLogged
    /\ UNCHANGED <<apiVars, pipeVars>>

\* process_video(input_path, output_path, ...): returns, raises VideoPipelineError,
\* or raises another exception (subprocess.CalledProcessError, OSError, ...).
\* It returns only if the upload is there; a stage that got as far as
\* _ensure_dir(..., parents=True) has (re)created and touched <temp>/<id>
process_video(c) ==
    /\ pc[c] = "process"
    /\ \/ /\ job[c] \in DOMAIN dirs
          /\ pc' = [pc EXCEPT ![c] = "complete"]
          /\ dirs' = Put(dirs, job[c], now)
          /\ UNCHANGED exc
       \/ /\ pc' = [pc EXCEPT ![c] = "fail"]
          /\ exc' = [exc EXCEPT ![c] = "stage failed"]
          /\ dirs' \in {dirs, Put(dirs, job[c], now)}
       \/ /\ pc' = [pc EXCEPT ![c] = "fail"]
          /\ exc' = [exc EXCEPT ![c] = "error"]
          /\ dirs' \in {dirs, Put(dirs, job[c], now)}
    /\ UNCHANGED <<now, jobs, nextId, job, outcome, busyAtArrival, createPruned, dpc, dExpired>>
    /\ NothingLogged
    /\ UNCHANGED <<apiVars, pipeVars>>

\* variant: a statement after the update to completed raises inside the try
set_completed_then_raise(c) ==
    /\ pc[c] = "complete"
    /\ update(c, "completed", "done", OutputPath(job[c]), "fail", "fail")
    /\ UNCHANGED <<now, nextId, dirs, job, outcome, busyAtArrival, createPruned, dpc, dExpired>>
    /\ NothingLogged
    /\ UNCHANGED <<apiVars, pipeVars>>

\* jobs.update(job.id, status="completed", ..., result_path=str(output_path)); return job
set_completed(c) ==
    /\ pc[c] = "complete"
    /\ update(c, "completed", "done", OutputPath(job[c]), "done", "fail")
    /\ outcome' = [outcome EXCEPT ![c] = IF job[c] \in DOMAIN jobs THEN "accepted" ELSE @]
    /\ UNCHANGED <<now, nextId, dirs, job, busyAtArrival, createPruned, dpc, dExpired>>
    /\ NothingLogged
    /\ UNCHANGED <<apiVars, pipeVars>>

\* the except clauses: jobs.update(job.id, status="failed", message=str(exc));
\* a KeyError raised here is raised inside the handler and leaves start_video_job
set_failed(c) ==
    /\ pc[c] = "fail"
    /\ update(c, "failed", exc[c], NoPath, "cleanup", "done")
    /\ outcome' = [outcome EXCEPT ![c] = IF job[c] \in DOMAIN jobs THEN @ ELSE "exception"]
    /\ UNCHANGED <<now, nextId, dirs, job, busyAtArrival, createPruned, dpc, dExpired>>
    /\ NothingLogged
    /\ UNCHANGED <<apiVars, pipeVars>>

\* variant: cleanup_job_dir that removes nothing
CleanupNoop(ds, S, F) == ds

\* what cleanup_job_dir leaves of the directories ds when called for each id
\* of S: shutil.rmtree removes the tree, a missing tree is a no-op, and for
\* the ids of F rmtree raises with the tree still there, which is swallowed
AfterCleanup(ds, S, F) == Drop(ds, S \ F)

\* the rmtree calls that can raise: only a tree that is there
CanFail(ds, S) == SUBSET (S \cap DOMAIN ds)

\* variant: cleanup_job_dir without "except FileNotFoundError: return"
CleanupRaisesNotFound(ds, id) == IF id \in DOMAIN ds THEN "accepted" ELSE "exception"

\* how the except clause of start_video_job ends after cleanup_job_dir(id):
\* cleanup_job_dir returns None whether or not the tree was there, the job
\* is returned
CleanupReturn(ds, id) == "accepted"

\* cleanup_job_dir(job.id) in the except clause; return job
cleanup_failed(c) ==
    /\ pc[c] = "cleanup"
    /\ \E F \in CanFail(dirs, {job[c]}) :
          /\ dirs' = AfterCleanup(dirs, {job[c]}, F)
          /\ rmFailed' = F
    /\ pc' = [pc EXCEPT ![c] = "done"]
    /\ outcome' = [outcome EXCEPT ![c] = CleanupReturn(dirs, job[c])]
    /\ UNCHANGED <<now, jobs, nextId, job, exc, busyAtArrival, createPruned,
                   dpc, dExpired>>
    /\ dErr' = FALSE
    /\ UNCHANGED <<apiVars, pipeVars>>

\* the response leaves; the request context is closed
respond(c) ==
    /\ pc[c] = "done"
    /\ pc' = [pc EXCEPT ![c] = "idle"]
    /\ job' = [job EXCEPT ![c] = NoJob]
    /\ exc' = [exc EXCEPT ![c] = ""]
    /\ outcome' = [outcome EXCEPT ![c] = "none"]
    /\ createPruned' = {}
    /\ UNCHANGED <<now, jobs, nextId, dirs, busyAtArrival, dpc, dExpired>>
    /\ NothingLogged
    /\ UNCHANGED <<apiVars, pipeVars>>

\* ----- the cleanup daemon (_cleanup_loop, backend/main.py)

\* jobs.prune_expired(), first half: now is read and the list "expired" is built
daemon_scan ==
    /\ dpc = "sleep"
    /\ dExpired' = Expired(jobs, now)
    /\ dpc' = "pop"
    /\ UNCHANGED <<now, jobs, nextId, dirs, pc, job, exc, outcome, busyAtArrival, createPruned>>
    /\ NothingLogged
    /\ UNCHANGED <<apiVars, pipeVars>>

\* jobs.prune_expired(), second half: self._jobs.pop(jid, None) for each listed id
daemon_pop ==
    /\ dpc = "pop"
    /\ jobs' = Drop(jobs, dExpired)
    /\ dpc' = "rmdirs"
    /\ UNCHANGED <<now, nextId, dirs, pc, job, exc, outcome, busyAtArrival,
                   createPruned, dExpired>>
    /\ NothingLogged
    /\ UNCHANGED <<apiVars, pipeVars>>

\* variant: a directory exactly at the cutoff counts as old
OrphansInclusive(ds, t) == {i \in DOMAIN ds : ds[i] <= t - TTL}

\* the directories _cleanup_orphan_dirs(max_age) removes at clock value t
Orphans(ds, t) == {i \in DOMAIN ds : ds[i] < t - TTL}

\* variant: a cycle that runs the orphan scan only
ScanOnlyTargets(expired, ds, t, scanned) ==
    IF scanned THEN Orphans(ds, t) ELSE {}

\* variant: a cycle that removes only the directories of the ids its own
\* prune returned
ExpiredOnlyTargets(expired, ds, t, scanned) == expired

\* the ids a cycle calls cleanup_job_dir for: every id of "expired", then,
\* when the temp root can be listed, every directory the orphan scan finds old
CycleTargets(expired, ds, t, scanned) ==
    expired \cup (IF scanned THEN Orphans(ds, t) ELSE {})

\* variant: no except clause around the cycle, the thread ends with the error
AfterCycleErrorUncaught == "dead"

\* where _cleanup_loop goes after "except Exception: logger.exception(...)"
AfterCycleError == "sleep"

\* for jid in expired: cleanup_job_dir(jid); then
\* _cleanup_orphan_dirs(config.job_ttl_minutes), which raises when the temp
\* root cannot be listed (scanned = FALSE: caught by the loop's except);
\* then time.sleep
daemon_cleanup ==
    /\ dpc = "rmdirs"
    /\ \E scanned \in BOOLEAN :
          LET tried == CycleTargets(dExpired, dirs, now, scanned)
          IN  /\ \E F \in CanFail(dirs, tried) :
                    /\ dirs' = AfterCleanup(dirs, tried, F)
                    /\ rmFailed' = F
              /\ dErr' = ~scanned
              /\ dpc' = IF scanned THEN "sleep" ELSE AfterCycleError
    /\ dExpired' = {}
    /\ UNCHANGED <<now, jobs, nextId, pc, job, exc, outcome, busyAtArrival, createPruned>>
    /\ UNCHANGED <<apiVars, pipeVars>>

Next ==
    \/ Tick
    \/ \E c \in Ctx : Arrive(c)
    \/ \E c \in Ctx : video_upscale(c)
    \/ \E c \in Ctx : create(c)
    \/ \E c \in Ctx : ensure_temp(c)
    \/ \E c \in Ctx : copy_upload(c)
    \/ \E c \in Ctx : set_running(c)
    \/ \E c \in Ctx : process_video(c)
    \/ \E c \in Ctx : set_completed(c)
    \/ \E c \in Ctx : set_failed(c)
    \/ \E c \in Ctx : cleanup_failed(c)
    \/ \E c \in Ctx : respond(c)
    \/ daemon_scan
    \/ daemon_pop
    \/ daemon_cleanup

Spec == Init /\ [][Next]_vars

\* ----- GET /jobs/{job_id} and GET /jobs/{job_id}/result (backend/main.py)

\* both handlers are "async def": they run when the event loop is not inside
\* video_upscale
LoopIdle == \A c \in Ctx : pc[c] \in {"idle", "pending"}

\* output_path.exists() and output_path.is_file()
FileThere(ds, path) == path[1] \in DOMAIN ds

\* variant: the existence of the file is not checked
ResultUnchecked(js, ds, id, resolved) ==
    IF id \notin DOMAIN js THEN "404"
    ELSE IF js[id].result_path = NoPath THEN "404"
    ELSE IF ~resolved THEN "400"
    ELSE "file"

\* what job_result answers for id; resolved says whether
\* output_path.resolve() returned a path inside config.temp_dir.resolve()
\* (it depends on the links on disk, and "except Exception" also covers a
\* resolve() that raises)
ResultAnswer(js, ds, id, resolved) ==
    IF id \notin DOMAIN js THEN "404"
    ELSE IF js[id].result_path = NoPath THEN "404"
    ELSE IF ~resolved THEN "400"
    ELSE IF ~FileThere(ds, js[id].result_path) THEN "404"
    ELSE "file"

\* job_status(job_id): jobs.get, 404 or job.to_dict()
job_status(id) ==
    /\ qpc = "idle"
    /\ LoopIdle
    /\ qpc' = "status"
    /\ qid' = id
    /\ qout' = IF id \in DOMAIN jobs THEN jobs[id].status ELSE "404"
    /\ UNCHANGED <<coreVars, pipeVars>>

\* job_result(job_id)
job_result(id) ==
    /\ qpc = "idle"
    /\ LoopIdle
    /\ qpc' = "result"
    /\ qid' = id
    /\ \E resolved \in BOOLEAN : qout' = ResultAnswer(jobs, dirs, id, resolved)
    /\ UNCHANGED <<coreVars, pipeVars>>

\* the ids the polling client asks for: the latest job and an id never issued
Polled == {nextId - 1, nextId} \cap Ids

\* the client has read the answer
poll_done ==
    /\ qpc # "idle"
    /\ qpc' = "idle" /\ qid' = NoJob /\ qout' = "none"
    /\ UNCHANGED <<coreVars, pipeVars>>

\* the answer is looked at in the state in which the handler produced it:
\* the rest of the program moves on once the client has read it
ApiNext ==
    \/ qpc = "idle" /\ Next
    \/ \E id \in Polled : job_status(id)
    \/ \E id \in Polled : job_result(id)
    \/ poll_done

ApiSpec == Init /\ [][ApiNext]_vars

\* the daemon thread is scheduled again and again: time.sleep returns and
\* each call of the loop body returns or raises
DaemonNext == daemon_scan \/ daemon_pop \/ daemon_cleanup
FairSpec == Spec /\ WF_vars(DaemonNext)

TypeOK ==
    /\ now \in 0..MaxTime
    /\ DOMAIN jobs \subseteq Ids
    /\ DOMAIN dirs \subseteq Ids
    /\ nextId \in 1..(MaxIds + 1)
    /\ \A c \in Ctx : job[c] \in Ids \cup {NoJob}
    /\ rmFailed \subseteq DOMAIN dirs
    /\ dErr \in BOOLEAN

\* ----- properties

Terminal == {"completed", "failed"}
Rank(status) == CASE status = "queued" -> 0
                  [] status = "running" -> 1
                  [] OTHER -> 2

\* the records prune_expired has to remove when called in the current state
PastKeep == {i \in DOMAIN jobs : jobs[i].keep_until < now}

\* context c leaves jobs.create in this step
CreateStep(c) == pc[c] = "create" /\ pc'[c] # "create"

\* C1: at most max_concurrent_jobs records are in status "running"
\* (with max_concurrent_jobs = 1: at most one pipeline runs at any time).
C1_RunningBounded == running_count <= MaxConcurrentJobs

\* a pipeline is running while a second submission, made meanwhile, waits
C1_Witness ==
    \E c, d \in Ctx : pc[c] = "process" /\ pc[d] = "pending" /\ busyAtArrival[d]
                       /\ job[c] \in DOMAIN jobs /\ jobs[job[c]].status = "running"

\* C2: a submission made while running_count() >= max_concurrent_jobs is
\* rejected with AdmissionDenied (429) and nothing is allocated, pruned,
\* changed or created on disk.
C2_DeniedWhenBusy ==
    [][\A c \in Ctx :
         (pc[c] = "pending" /\ busyAtArrival[c] /\ pc'[c] # "pending")
            => /\ pc'[c] = "done"
               /\ outcome'[c] = "denied"
               /\ jobs' = jobs /\ dirs' = dirs /\ nextId' = nextId]_vars

\* C3: when the records left by the prune still number max_jobs, create
\* raises, adds no record and leaves every surviving record as it was.
C3_CreateAtCapacity ==
    [][\A c \in Ctx :
         (CreateStep(c) /\ Cardinality(DOMAIN jobs \ PastKeep) >= MaxJobs)
            => /\ pc'[c] = "done"
               /\ outcome'[c] = "capacity"
               /\ nextId' = nextId /\ job'[c] = NoJob /\ dirs' = dirs
               /\ DOMAIN jobs' = DOMAIN jobs \ PastKeep
               /\ \A i \in DOMAIN jobs' : jobs'[i] = jobs[i]]_vars

\* a create has just been refused by a full registry
C3_Witness ==
    \E c \in Ctx : pc[c] = "done" /\ outcome[c] = "capacity"
                    /\ Cardinality(DOMAIN jobs) = MaxJobs

\* C4: the registry never holds more than max_jobs records.
C4_RegistryBounded == Cardinality(DOMAIN jobs) <= MaxJobs

\* the registry is full and a further create is about to run
C4_Witness ==
    \E c \in Ctx : pc[c] = "create" /\ Cardinality(DOMAIN jobs) = MaxJobs

\* C5: with max_jobs records in the registry, create raises if none of them
\* is past its keep_until, and otherwise succeeds at once, returning a new
\* record in status "queued"; the prune is create's own.
C5_CreateWhenFull ==
    [][\A c \in Ctx :
         (CreateStep(c) /\ Cardinality(DOMAIN jobs) = MaxJobs)
            => IF PastKeep = {}
               THEN pc'[c] = "done" /\ outcome'[c] = "capacity"
               ELSE /\ pc'[c] = "mkdir"
                    /\ job'[c] \notin DOMAIN jobs
                    /\ job'[c] \in DOMAIN jobs'
                    /\ jobs'[job'[c]].status = "queued"]_vars

\* create has just succeeded on a registry that was full: it evicted a
\* record itself and the registry is full again
C5_Witness ==
    \E c \in Ctx : /\ pc[c] = "mkdir" /\ createPruned # {}
                    /\ Cardinality(DOMAIN jobs) = MaxJobs
                    /\ jobs[job[c]].status = "queued"

\* C6: prune_expired removes exactly the records whose keep_until is
\* strictly before the clock value it reads, returns exactly their ids and
\* leaves every other record as it was (the call made by create, and the
\* two halves of the call made by the daemon).
C6_PruneExact ==
    [][/\ \A c \in Ctx : CreateStep(c) =>
             /\ createPruned' = PastKeep
             /\ \A i \in PastKeep : i \notin DOMAIN jobs'
             /\ \A i \in DOMAIN jobs \ PastKeep :
                    i \in DOMAIN jobs' /\ jobs'[i] = jobs[i]
       /\ (dpc = "sleep" /\ dpc' = "pop") => dExpired' = PastKeep
       /\ (dpc = "pop" /\ dpc' = "rmdirs") =>
             /\ DOMAIN jobs' = DOMAIN jobs \ dExpired
             /\ \A i \in DOMAIN jobs' : jobs'[i] = jobs[i]]_vars

\* the daemon's prune has just removed some records and kept another,
\* whose keep_until is exactly the current clock value
C6_Witness ==
    /\ dpc = "rmdirs" /\ dExpired # {}
    /\ dExpired \cap DOMAIN jobs = {}
    /\ \E i \in DOMAIN jobs : jobs[i].keep_until = now

\* C7: a job's status only moves forward along queued -> running ->
\* {completed, failed}, and a completed or failed job keeps its status.
C7_StatusMonotonic ==
    [][\A i \in DOMAIN jobs \cap DOMAIN jobs' :
         /\ Rank(jobs'[i].status) >= Rank(jobs[i].status)
         /\ jobs[i].status \in Terminal => jobs'[i].status = jobs[i].status]_vars

\* one job went queued -> running -> completed, another ended failed
C7_Witness ==
    \E i, k \in DOMAIN jobs : jobs[i].status = "completed" /\ jobs[k].status = "failed"

\* C8: a record has a result_path exactly when its status is "completed".
C8_ResultPathIffCompleted ==
    \A i \in DOMAIN jobs :
        (jobs[i].result_path # NoPath) <=> (jobs[i].status = "completed")

\* a completed job carries the path of its output.mp4
C8_Witness ==
    \E i \in DOMAIN jobs : jobs[i].status = "completed"
                            /\ jobs[i].result_path = OutputPath(i)

\* C9: until a job is terminal its keep_until is creation time + TTL (an
\* update to "running" does not move it); the update to completed or
\* failed resets it to the time of that update + TTL.  Each registry call
\* is taken to read one clock value.
C9_KeepUntil ==
    \A i \in DOMAIN jobs :
        IF jobs[i].status \in Terminal
        THEN jobs[i].keep_until = jobs[i].updated_at + TTL
        ELSE jobs[i].keep_until = jobs[i].created_at + TTL

\* a running job updated after its creation tick, and a terminal job whose
\* keep_until was moved past creation time + TTL
C9_Witness ==
    /\ \E i \in DOMAIN jobs : /\ jobs[i].status = "running"
                               /\ jobs[i].updated_at > jobs[i].created_at
    /\ \E i \in DOMAIN jobs : /\ jobs[i].status \in Terminal
                               /\ jobs[i].keep_until > jobs[i].created_at + TTL

\* C10: once the job is allocated, an error inside the orchestrator's try
\* block ends with start_video_job returning normally (the job failed):
\* no exception leaves it.
C10_NoExceptionEscapes ==
    \A c \in Ctx : (pc[c] = "done" /\ exc[c] # "") => outcome[c] = "accepted"

\* the step of context c that runs cleanup_job_dir in the except clause
FailurePathStep(c) == pc[c] = "cleanup" /\ pc'[c] = "done"

\* context c has returned from the except clause of start_video_job
FailureHandled(c) == pc[c] = "done" /\ exc[c] # "" /\ outcome[c] = "accepted"

\* C11 as stated: once the failure path of a job has completed, the job's
\* staging directory does not exist.
C11_DirAbsentAfterFailure ==
    \A c \in Ctx : FailureHandled(c) => job[c] \notin DOMAIN dirs

\* C11 amended: when the failure path of a job completes, the job's staging
\* directory does not exist unless shutil.rmtree raised, in which case the
\* failure was logged and the directory is left in place.
C11_DirAbsentOrLogged ==
    [][\A c \in Ctx : FailurePathStep(c) =>
          (job[c] \notin DOMAIN dirs' \/ job[c] \in rmFailed')]_vars

C11_Witness ==
    \E c \in Ctx :
        /\ FailureHandled(c)
        /\ job[c] \in DOMAIN jobs
        /\ jobs[job[c]].status = "failed"
        /\ job[c] \notin DOMAIN dirs
        /\ rmFailed = {}

\* C12 as stated, in its safety form: when start_video_job has stopped
\* working on a job it allocated (returned or raised), the job's record is
\* completed or failed; nothing updates the record afterwards, so a record
\* left queued or running then never reaches a terminal status.
C12_AllocatedEndsTerminal ==
    \A c \in Ctx :
        (pc[c] = "done" /\ job[c] # NoJob /\ job[c] \in DOMAIN jobs)
            => jobs[job[c]].status \in Terminal

\* the records, and the staging directories, that a step removes
Evicted == (DOMAIN jobs) \ (DOMAIN jobs')
Deleted == (DOMAIN dirs) \ (DOMAIN dirs')

\* a step of the cleanup daemon
DaemonStep == dpc' # dpc

\* C13 as stated: no step evicts a record whose status is queued or running,
\* and the daemon never deletes the staging directory of such a record.
C13_OnlyTerminalReclaimed ==
    [][/\ \A i \in Evicted : jobs[i].status \in Terminal
       /\ DaemonStep =>
            \A i \in Deleted \cap DOMAIN jobs : jobs[i].status \in Terminal]_vars

\* the directories that the orphan scan of a daemon cycle deletes: those the
\* cycle deletes without their id being in its list "expired"
ScanDeleted == IF dpc = "rmdirs" /\ dpc' # dpc THEN Deleted \ dExpired ELSE {}

\* C14 as stated: the orphan scan deletes a directory only if the registry
\* holds no record with that id.
C14_ScanSparesTracked ==
    [][\A i \in ScanDeleted : i \notin DOMAIN jobs]_vars

\* the step that ends a daemon cycle: directory deletions and orphan scan
CycleEnd == dpc = "rmdirs" /\ dpc' # dpc

\* the directories older than the age threshold that no record tracks
OldUntracked == {i \in DOMAIN dirs : dirs[i] < now - TTL /\ i \notin DOMAIN jobs}

\* the orphan scan deletes no directory younger than the age threshold
ScanSparesYoung == \A i \in ScanDeleted : dirs[i] < now - TTL

\* C15 as stated: a daemon cycle removes every untracked directory older
\* than the age threshold, and its orphan scan leaves every directory
\* younger than the threshold intact.
C15_OrphansRemoved ==
    [][CycleEnd =>
          /\ \A i \in OldUntracked : i \notin DOMAIN dirs'
          /\ ScanSparesYoung]_vars

\* C15 amended: a daemon cycle removes every untracked directory older than
\* the age threshold unless its deletion failed (logged per directory) or the
\* scan itself raised (logged as a cleanup loop error); the orphan scan leaves
\* every directory younger than the threshold intact.
C15_OrphansRemovedOrLogged ==
    [][CycleEnd =>
          /\ \A i \in OldUntracked :
                i \notin DOMAIN dirs' \/ i \in rmFailed' \/ dErr'
          /\ ScanSparesYoung]_vars

C15_Witness ==
    /\ dpc = "rmdirs"
    /\ OldUntracked \ dExpired # {}
    /\ \E i \in DOMAIN dirs :
          dirs[i] >= now - TTL /\ i \notin DOMAIN jobs /\ i \notin dExpired

\* C16 as stated: at the end of a daemon cycle no id evicted in that cycle
\* still has a staging directory, and none of them has a record.
C16_EvictedDirsGone ==
    [][CycleEnd =>
          \A i \in dExpired : i \notin DOMAIN dirs' /\ i \notin DOMAIN jobs']_vars

\* C16 amended: a daemon cycle calls cleanup_job_dir for every id it evicted;
\* afterwards the id has no staging directory unless the delete itself failed
\* and was logged, and in either case the id has no record.
C16_EvictedDirsGoneOrLogged ==
    [][CycleEnd =>
          \A i \in dExpired :
              /\ i \notin DOMAIN dirs' \/ i \in rmFailed'
              /\ i \notin DOMAIN jobs']_vars

C16_Witness ==
    /\ dpc = "rmdirs"
    /\ dExpired \cap DOMAIN dirs # {}
    /\ dExpired \cap DOMAIN jobs = {}

\* C17: after a cycle that ended in an error the daemon is still alive and
\* starts another cycle (it lists the expired records again).
C17_DaemonSurvivesError == dErr ~> (dpc = "pop")

C17_Witness == dErr /\ dpc = "sleep"

\* a deletion attempt on directory i leaves it absent
GoneAfter(i) == i \notin DOMAIN dirs'

\* a deletion attempt on an absent directory i changes nothing and raises nothing
NoOpIfGone(i) == i \notin DOMAIN dirs => (i \notin DOMAIN dirs' /\ i \notin rmFailed')

C19_PruneSeesRefresh ==
    [][\A i \in Evicted : jobs[i].keep_until < now]_vars

\* C20: when jobs.create raises instead of allocating, the submission is
\* answered with the retryable rejection (429) and the handler touches no
\* directory, neither in that step nor before it responds.
C20_RefusalTouchesNothing ==
    [][\A c \in Ctx :
         /\ (CreateStep(c) /\ job'[c] = NoJob)
                => pc'[c] = "done" /\ outcome'[c] = "capacity" /\ dirs' = dirs
         /\ (pc[c] = "done" /\ outcome[c] = "capacity" /\ pc'[c] # pc[c])
                => pc'[c] = "idle" /\ dirs' = dirs]_vars

C20_Witness ==
    \E c \in Ctx :
        /\ pc[c] = "done" /\ outcome[c] = "capacity" /\ job[c] = NoJob
        /\ DOMAIN dirs # {}
        /\ \A d \in Ctx : job[d] \notin DOMAIN dirs

\* process_video has returned to context c: every stage succeeded
StagesSucceeded(c) == pc[c] = "complete"

\* C21 as stated, for the record and the artifact: when all stages of a job
\* have succeeded, the next step of start_video_job leaves the job completed
\* with result_path <temp>/<id>/output.mp4, and that file is there.
C21_SuccessCompletes ==
    [][\A c \in Ctx :
         (StagesSucceeded(c) /\ pc'[c] # pc[c]) =>
            /\ pc'[c] = "done"
            /\ job[c] \in DOMAIN jobs'
            /\ jobs'[job[c]].status = "completed"
            /\ jobs'[job[c]].result_path = OutputPath(job[c])
            /\ job[c] \in DOMAIN dirs']_vars

\* start_video_job has returned a job to video_upscale, which answers 200
Accepted(c) == pc[c] = "done" /\ outcome[c] = "accepted"

\* the body video_upscale returns: the fields of the Job object it was handed,
\* which is the registry's record for as long as the record is kept
ResponseBody(c) ==
    [job_id |-> job[c], status |-> jobs[job[c]].status, message |-> jobs[job[c]].message]

\* C22: when an accepted submission returns, its job is terminal and the
\* returned status and message are those of the terminal state: completed
\* with "done" after a successful pipeline, failed with the error text
\* otherwise.
C22_ReturnsTerminal ==
    \A c \in Ctx :
        (Accepted(c) /\ job[c] \in DOMAIN jobs) =>
            /\ ResponseBody(c).status \in Terminal
            /\ exc[c] = "" => ResponseBody(c) = [job_id |-> job[c], status |-> "completed", message |-> "done"]
            /\ exc[c] # "" => ResponseBody(c) = [job_id |-> job[c], status |-> "failed", message |-> exc[c]]

C22_Witness ==
    \E c \in Ctx :
        /\ Accepted(c)
        /\ job[c] \in DOMAIN jobs
        /\ ResponseBody(c).status = "completed"
        /\ jobs[job[c]].updated_at > jobs[job[c]].created_at

\* job_result has just answered (the state is the one it looked at)
ResultAnswered == qpc = "result"

\* the job asked for is completed and its output.mp4 is on disk
ArtifactThere ==
    /\ qid \in DOMAIN jobs
    /\ jobs[qid].status = "completed"
    /\ jobs[qid].result_path = OutputPath(qid)
    /\ qid \in DOMAIN dirs

Written == {i \in DOMAIN dirs' : i \notin DOMAIN dirs \/ dirs'[i] # dirs[i]}

UpdateStep(c) == pc[c] \in {"setrunning", "complete", "fail"} /\ pc'[c] # pc[c]

\* C25: update for an id that is not in the registry raises (KeyError),
\* adds no record and leaves every record as it was.
C25_UnknownIdRaises ==
    [][\A c \in Ctx :
         (UpdateStep(c) /\ job[c] \notin DOMAIN jobs) =>
             /\ jobs' = jobs
             /\ exc'[c] = "error"
             /\ pc'[c] = IF pc[c] = "fail" THEN "done" ELSE "fail"
             /\ pc[c] = "fail" => outcome'[c] = "exception"]_vars

\* a request whose record was evicted under it ended in the KeyError of
\* its last update, and the record is still not there
C25_Witness ==
    \E c \in Ctx :
        /\ pc[c] = "done" /\ outcome[c] = "exception" /\ exc[c] = "error"
        /\ job[c] # NoJob /\ job[c] \notin DOMAIN jobs

\* C27: the updated_at written by each update of start_video_job is
\* strictly greater than the value it replaces.
C27_UpdatedAtStrictlyIncreases ==
    [][\A c \in Ctx :
         (UpdateStep(c) /\ job[c] \in DOMAIN jobs) =>
             jobs'[job[c]].updated_at > jobs[job[c]].updated_at]_vars

\* a pipeline is running: some record is in status "running"
PipelineRunning == \E i \in DOMAIN jobs : jobs[i].status = "running"

\* C28: while a pipeline is running a status query for any job id can be
\* served, and the query for the running job answers "running".
C28_StatusServedWhileRunning ==
    PipelineRunning =>
        \A i \in Polled :
            /\ qpc = "idle" => ENABLED job_status(i)
            /\ (qpc = "status" /\ qid = i /\ i \in DOMAIN jobs /\ jobs[i].status = "running")
                   => qout = "running"

\* ----- process_video, frame by frame (backend/pipelines/video.py)

\* an image is one pixel wide or a multiple of it: its width and the value
\* of its pixels; a file cv2.imread returns None for
Image(p) == [ok |-> TRUE, w |-> 1, px |-> p]
Unreadable == [ok |-> FALSE, w |-> 0, px |-> 0]

Pix == 0 .. MaxPix
SourceFrames == {Image(p) : p \in Pix} \cup {Unreadable}
Videos == UNION {[1 .. n -> SourceFrames] : n \in 0 .. MaxLen}
Scales == {2, 3, 4}

\* len(sorted(dir.glob("frame_*.png")))
Count(files) == Cardinality(DOMAIN files)

\* upsampler.enhance(img, outscale=scale): the image, scale times as wide
Enhance(img, scale) == [img EXCEPT !.w = @ * scale]

\* variant: a frame that cannot be read is skipped
RECURSIVE upscale_skip_loop(_, _, _, _)
upscale_skip_loop(in, scale, i, out) ==
    IF i > Count(in) THEN [files |-> out, err |-> ""]
    ELSE IF ~in[i].ok THEN upscale_skip_loop(in, scale, i + 1, out)
    ELSE upscale_skip_loop(in, scale, i + 1, Put(out, i, Enhance(in[i], scale)))

UpscaleSkipUnreadable(in, scale) == upscale_skip_loop(in, scale, 1, <<>>)

\* the loop of upscale_frames over sorted(frames_dir.glob("frame_*.png")),
\* from frame i on: what it has written to out_dir and the error it raised
RECURSIVE upscale_loop(_, _, _, _)
upscale_loop(in, scale, i, out) ==
    IF i > Count(in) THEN [files |-> out, err |-> ""]
    ELSE IF ~in[i].ok THEN [files |-> out, err |-> "failed to read frame"]
    ELSE upscale_loop(in, scale, i + 1, Put(out, i, Enhance(in[i], scale)))

Upscale(in, scale) == upscale_loop(in, scale, 1, <<>>)

\* variant: the synthetic frame is a copy of the earlier neighbour
BlendFirst(a, b) == a

\* cv2.addWeighted(img, 0.5, nxt, 0.5, 0) on uint8: per pixel half the sum,
\* a half rounded to the even neighbour
Blend(a, b) ==
    LET sum == a.px + b.px
        q == sum \div 2
    IN  [ok |-> TRUE, w |-> a.w,
         px |-> IF sum % 2 = 0 \/ q % 2 = 0 THEN q ELSE q + 1]

\* the loop of interpolate_frames from input frame i on, idx the next
\* output number
RECURSIVE interpolate_loop(_, _, _, _)
interpolate_loop(in, i, idx, out) ==
    IF i > Count(in) THEN [files |-> out, err |-> ""]
    ELSE IF ~in[i].ok THEN [files |-> out, err |-> "failed to read frame"]
    ELSE LET copied == Put(out, idx, in[i])
         IN  IF i + 1 <= Count(in)
             THEN IF ~in[i + 1].ok
                  THEN [files |-> copied, err |-> "failed to read frame"]
                  ELSE interpolate_loop(in, i + 1, idx + 2,
                                        Put(copied, idx + 1, Blend(in[i], in[i + 1])))
             ELSE interpolate_loop(in, i + 1, idx + 1, copied)

\* interpolate_frames(frames_dir, out_dir): fewer than two frames are copied
\* over with shutil.copytree
Interpolate(in) ==
    IF Count(in) < 2 THEN [files |-> in, err |-> ""]
    ELSE interpolate_loop(in, 1, 1, <<>>)

\* variant: the output is always encoded at 25 frames per second
TargetFpsFixed(a) == 25

\* frames_for_output and target_fps of process_video
FramesForOutput(a) == IF a.interpolate THEN "frames_interp" ELSE "frames_up"
TargetFps(a) == IF a.interpolate THEN 50 ELSE 25

\* a call of process_video with some upload, scale and interpolate flag
PipeInit ==
    /\ CoreInit /\ ApiInit
    /\ stage = "start"
    /\ args \in [scale : Scales, interpolate : BOOLEAN, ffmpeg : BOOLEAN]
    /\ video \in Videos
    /\ frames = NoDir /\ frames_up = NoDir /\ frames_interp = NoDir
    /\ output = NoFile
    /\ log = <<>>
    /\ raised = ""

\* the tests process_video makes before the first stage
process_video_enter ==
    /\ stage = "start"
    /\ IF args.scale \notin {2, 4}
       THEN stage' = "raised" /\ raised' = "scale must be 2 or 4"
       ELSE IF ~args.ffmpeg
            THEN stage' = "raised" /\ raised' = "ffmpeg not found"
            ELSE stage' = "extract" /\ raised' = raised
    /\ UNCHANGED <<args, video, frames, frames_up, frames_interp, output, log>>
    /\ UNCHANGED <<coreVars, apiVars>>

\* extract_frames: ffmpeg writes frame_000001.png, ... ; a non-zero exit
\* raises subprocess.CalledProcessError with some of them written
extract_frames ==
    /\ stage = "extract"
    /\ log' = Append(log, "extract")
    /\ \/ /\ frames' = [there |-> TRUE, files |-> video]
          /\ stage' = "enhance"
          /\ raised' = raised
       \/ /\ \E k \in 0 .. Len(video) :
                frames' = [there |-> TRUE, files |-> SubSeq(video, 1, k)]
          /\ stage' = "crashed"
          /\ raised' = "error"
    /\ UNCHANGED <<args, video, frames_up, frames_interp, output>>
    /\ UNCHANGED <<coreVars, apiVars>>

\* upscale_frames: the model file is missing, or the loop runs to its end
\* or to the first unreadable frame, or enhance raises at some frame
upscale_frames ==
    /\ stage = "enhance"
    /\ log' = Append(log, "enhance")
    /\ \/ /\ frames_up' = [there |-> TRUE, files |-> <<>>]
          /\ stage' = "raised"
          /\ raised' = "model not found"
       \/ LET r == Upscale(frames.files, args.scale)
          IN  /\ frames_up' = [there |-> TRUE, files |-> r.files]
              /\ raised' = r.err
              /\ stage' = IF r.err # "" THEN "raised"
                          ELSE IF args.interpolate THEN "interpolate" ELSE "assemble"
       \/ \E k \in 1 .. Count(frames.files) :
              /\ \A i \in 1 .. k : frames.files[i].ok
              /\ frames_up' = [there |-> TRUE,
                               files |-> Upscale(SubSeq(frames.files, 1, k - 1), args.scale).files]
              /\ stage' = "crashed"
              /\ raised' = "error"
    /\ UNCHANGED <<args, video, frames, frames_interp, output>>
    /\ UNCHANGED <<coreVars, apiVars>>

\* interpolate_frames(upscaled, interp)
interpolate_frames ==
    /\ stage = "interpolate"
    /\ log' = Append(log, "interpolate")
    /\ LET r == Interpolate(frames_up.files)
       IN  /\ frames_interp' = [there |-> TRUE, files |-> r.files]
           /\ raised' = r.err
           /\ stage' = IF r.err # "" THEN "raised" ELSE "assemble"
    /\ UNCHANGED <<args, video, frames, frames_up, output>>
    /\ UNCHANGED <<coreVars, apiVars>>

\* assemble_video(ffmpeg_path, frames_for_output, ..., framerate=target_fps);
\* a non-zero exit of ffmpeg raises subprocess.CalledProcessError
assemble_video ==
    /\ stage = "assemble"
    /\ log' = Append(log, "assemble")
    /\ \/ /\ output' = [there |-> TRUE,
                         src |-> FramesForOutput(args),
                         fps |-> TargetFps(args),
                         frames |-> IF FramesForOutput(args) = "frames_interp"
                                    THEN frames_interp.files ELSE frames_up.files]
          /\ stage' = "cleanup"
          /\ raised' = raised
       \/ /\ stage' = "crashed"
          /\ raised' = "error"
          /\ UNCHANGED output
    /\ UNCHANGED <<args, video, frames, frames_up, frames_interp>>
    /\ UNCHANGED <<coreVars, apiVars>>

\* the three "try: shutil.rmtree(...) except Exception: pass" and the return
process_video_cleanup ==
    /\ stage = "cleanup"
    /\ frames' \in {NoDir, frames}
    /\ frames_up' \in {NoDir, frames_up}
    /\ frames_interp' \in IF args.interpolate THEN {NoDir, frames_interp} ELSE {frames_interp}
    /\ stage' = "returned"
    /\ UNCHANGED <<args, video, output, log, raised>>
    /\ UNCHANGED <<coreVars, apiVars>>

PipeNext ==
    \/ process_video_enter
    \/ extract_frames
    \/ upscale_frames
    \/ interpolate_frames
    \/ assemble_video
    \/ process_video_cleanup

PipeSpec == PipeInit /\ [][PipeNext]_vars

\* interpolate_frames has returned and its output is still on disk
Interpolated == stage = "assemble" /\ args.interpolate

Expected(a) ==
    IF a.interpolate THEN <<"extract", "enhance", "interpolate", "assemble">>
    ELSE <<"extract", "enhance", "assemble">>

\* process_video has raised
Failed == stage \in {"raised", "crashed"}

\* C29: the stages started are a prefix of extract, enhance, interpolate
\* (only if requested), assemble, each at most once; a stage starts only when
\* nothing has failed and every earlier stage has delivered its frames; after
\* a failure nothing runs; what assemble encodes is the interpolated frames
\* at 50 frames per second if interpolate was requested and the enhanced
\* frames at 25 otherwise.
C29_StagesInOrder ==
    /\ [](/\ Len(log) <= Len(Expected(args))
          /\ log = SubSeq(Expected(args), 1, Len(log))
          /\ Failed => ~output.there
          /\ output.there =>
                /\ log = Expected(args)
                /\ args.interpolate => output.src = "frames_interp" /\ output.fps = 50
                /\ ~args.interpolate => output.src = "frames_up" /\ output.fps = 25)
    /\ [][/\ ~Failed
          /\ log' # log =>
                /\ raised = ""
                /\ stage = Expected(args)[Len(log) + 1]
                /\ log' = Append(log, stage)
                /\ stage # "extract" => frames.there /\ frames.files = video
                /\ stage \in {"interpolate", "assemble"} =>
                      /\ Count(frames_up.files) = Len(video)
                      /\ \A i \in DOMAIN frames_up.files : frames_up.files[i].ok
                /\ (stage = "assemble" /\ args.interpolate) =>
                      /\ frames_interp.there
                      /\ Count(frames_interp.files) >= Len(video)
          /\ (~output.there /\ output'.there) =>
                output'.frames = IF args.interpolate THEN frames_interp.files
                                 ELSE frames_up.files]_vars

\* a call with interpolation went through its four stages and returned a
\* video of more than one frame encoded at 50 frames per second
C29_Witness ==
    /\ stage = "returned" /\ args.interpolate
    /\ log = <<"extract", "enhance", "interpolate", "assemble">>
    /\ output.there /\ output.fps = 50 /\ Count(output.frames) > Len(video)

\* the extracted frames that cannot be read
BadFrames == {i \in DOMAIN frames.files : ~frames.files[i].ok}

\* the enhance stage has run (to its end or to an exception)
EnhanceRan == Len(log) >= 2 /\ stage # "enhance"

\* the enhance stage raised over a frame it could not read
ReadFailure == EnhanceRan /\ stage = "raised" /\ raised = "failed to read frame"

\* C30: the enhance stage takes the frames in ascending order and stops at
\* the first one it cannot read: it raises VideoPipelineError, the frames
\* before it are in the upscaled directory, enhanced, under their own
\* numbers, and no frame from the unreadable one on is written; with an
\* unreadable frame among the extracted ones the pipeline does not get past
\* the enhance stage.
C30_StopsAtFirstUnreadable ==
    /\ ReadFailure =>
          /\ BadFrames # {}
          /\ log = <<"extract", "enhance">>
          /\ \E k \in BadFrames :
                /\ \A i \in BadFrames : k <= i
                /\ DOMAIN frames_up.files = 1 .. (k - 1)
                /\ \A i \in 1 .. (k - 1) :
                      frames_up.files[i] = Enhance(frames.files[i], args.scale)
    /\ (EnhanceRan /\ BadFrames # {} /\ frames.there) =>
          /\ Failed
          /\ raised \in {"failed to read frame", "model not found", "error"}
          /\ \A i \in DOMAIN frames_up.files : \A k \in BadFrames : i < k

\* of three extracted frames the second cannot be read: the first is
\* written, the third, which is readable, is not
C30_Witness ==
    /\ ReadFailure
    /\ Count(frames.files) = 3
    /\ BadFrames = {2}
    /\ DOMAIN frames_up.files = {1}

\* the record of job i was removed by the prune inside create, which drops
\* the ids it got, and the staging directory of i is still on disk
LeftByCreate(i) == i \in createPruned /\ i \in DOMAIN dirs

\* C31 as stated: the directory of a job whose record was evicted by
\* create's own prune is eventually deleted by a daemon cycle.
C31_CreatePrunedDirsGone ==
    \A i \in Ids : LeftByCreate(i) ~> (i \notin DOMAIN dirs)

\* C31: the directory of a job whose record was evicted by create's own
\* prune is eventually taken up by a daemon cycle, which deletes it unless
\* the recursive delete raises (swallowed and logged) or the temp root
\* cannot be listed in that cycle (logged as a cleanup loop error).
C31_CreatePrunedDirsTried ==
    \A i \in Ids :
        LeftByCreate(i) ~> (i \notin DOMAIN dirs \/ i \in rmFailed \/ dErr)

\* a daemon cycle is at its deletions; its own prune did not return i,
\* whose record create evicted, and the orphan scan finds the directory old
C31_Witness ==
    \E i \in Ids :
        /\ LeftByCreate(i)
        /\ dpc = "rmdirs" /\ i \notin dExpired
        /\ i \in CycleTargets(dExpired, dirs, now, TRUE)

====
